---- MODULE Spec2Model ----
(***************************************************************************)
(* Model of the auth-service: the users table, the password hasher, the    *)
(* JWT codec of app/core/security.py and the three handlers of             *)
(* app/routers/auth.py (register, login, /me through get_current_user).    *)
(*                                                                         *)
(* Time is counted in ticks of 1/TicksPerSec second.  datetime.now() reads *)
(* the clock in ticks; a JWT NumericDate ("exp") is a whole number of      *)
(* seconds, obtained by timegm(utctimetuple()), which drops the fraction.  *)
(***************************************************************************)
EXTENDS Integers, FiniteSets, Sequences, TLC

VARIABLES users, now, reg, held, last, db

vars == <<users, now, reg, held, last, db>>

(***************************************************************************)
(* Bounds of the model.                                                    *)
(***************************************************************************)
MaxProc == 2        \* register invocations, all of which may overlap
StartTick == 4      \* clock reading when the service starts
TicksPerSec == 2    \* clock resolution

Proc == 1..MaxProc
Emails == {"a@x.com", "b@x.com"}
Passwords == {"pw123456", "hunter22"}
None == "None"

(***************************************************************************)
(* app/core/config.py                                                      *)
(***************************************************************************)
secret_key == "fallback-secret-key"
access_token_expire_minutes == 30

\* a key the server does not hold (a forger's key)
other_key == "attacker-key"

(***************************************************************************)
(* Clock helpers.                                                          *)
(***************************************************************************)
\* timedelta(minutes = m) and timedelta(seconds = s), in ticks
minutes(m) == m * 60 * TicksPerSec
seconds(s) == s * TicksPerSec

\* calendar.timegm(dt.utctimetuple()): whole seconds, fraction dropped
timegm(t) == t \div TicksPerSec

DefaultDelta == minutes(access_token_expire_minutes)

\* the instants at which the model samples the clock
Instants ==
    {StartTick, StartTick + 1}
        \cup {StartTick + DefaultDelta, StartTick + DefaultDelta + 1,
              StartTick + DefaultDelta + TicksPerSec}

(***************************************************************************)
(* Password hasher (app/core/security.py, passlib bcrypt).  bcrypt is an   *)
(* injective function of (salt, plaintext); the digest string embeds the   *)
(* salt next to the checksum.                                              *)
(***************************************************************************)
bcrypt(salt, plain_password) == <<salt, plain_password>>

hash_password(plain_password, salt) ==
    [salt |-> salt, checksum |-> bcrypt(salt, plain_password)]

\* variant: hashes the plaintext again under a fresh salt and compares digests
verify_password_rehash(plain_password, hashed_password) ==
    hash_password(plain_password, hashed_password.salt + 1) = hashed_password

verify_password(plain_password, hashed_password) ==
    bcrypt(hashed_password.salt, plain_password) = hashed_password.checksum

(***************************************************************************)
(* Token codec (app/core/security.py, python-jose).  A compact JWS has     *)
(* three segments: header, payload, signature.  HS256 is an ideal MAC: the *)
(* signature is determined by, and determines, the key and the payload.    *)
(***************************************************************************)
HMAC(key, payload) == [key |-> key, msg |-> payload]

jwt_encode(claims, key) ==
    [segs |-> 3, payload |-> claims, sig |-> HMAC(key, claims)]

\* an Optional[timedelta] is a set: {} is None, {d} is a delta of d ticks
NoDelta == {}
Delta(d) == {d}
TheDelta(expires_delta) == CHOOSE d \in expires_delta : TRUE

\* a timedelta is truthy unless it is timedelta(0)
Truthy(expires_delta) == expires_delta # {} /\ expires_delta # {0}

\* variant: the configured lifetime taken as seconds instead of minutes
create_access_token_seconds(data, expires_delta, t) ==
    LET expire == IF Truthy(expires_delta)
                  THEN t + TheDelta(expires_delta)
                  ELSE t + seconds(access_token_expire_minutes)
        to_encode == [exp |-> timegm(expire)] @@ data
    IN  jwt_encode(to_encode, secret_key)

\* data is a dict: [sub |-> email] or the empty dict <<>>
create_access_token(data, expires_delta, t) ==
    LET expire == IF Truthy(expires_delta)
                  THEN t + TheDelta(expires_delta)
                  ELSE t + minutes(access_token_expire_minutes)
        to_encode == [exp |-> timegm(expire)] @@ data
    IN  jwt_encode(to_encode, secret_key)

\* variant: decoding with the option verify_signature switched off
jwt_decode_unverified(token, key, t) ==
    IF token.segs # 3 THEN {}
    ELSE IF "exp" \in DOMAIN token.payload /\ token.payload.exp < timegm(t) THEN {}
    ELSE {token.payload}

\* jose.jwt.decode: {} when it raises JWTError, else {payload}.
\* The expiry check of jose is _validate_exp: raise iff exp < timegm(now).
jwt_decode(token, key, t) ==
    IF token.segs # 3 THEN {}
    ELSE IF token.sig # HMAC(key, token.payload) THEN {}
    ELSE IF "exp" \in DOMAIN token.payload /\ token.payload.exp < timegm(t) THEN {}
    ELSE {token.payload}

\* variant: dict.get(key, ""), an empty string when the key is absent
get_default(payload, key) == IF key \in DOMAIN payload THEN payload[key] ELSE ""

\* dict.get(key): None when the key is absent
get(payload, key) == IF key \in DOMAIN payload THEN payload[key] ELSE None

\* variant: reads the "email" entry the docstring of create_access_token shows
decode_access_token_email(token, t) ==
    LET decoded == jwt_decode(token, secret_key, t)
    IN  IF decoded = {} THEN None
        ELSE LET payload == CHOOSE p \in decoded : TRUE
                 email == get(payload, "email")
             IN  IF email = None THEN None ELSE email

decode_access_token(token, t) ==
    LET decoded == jwt_decode(token, secret_key, t)
    IN  IF decoded = {} THEN None
        ELSE LET payload == CHOOSE p \in decoded : TRUE
                 email == get(payload, "sub")
             IN  IF email = None THEN None ELSE email

(***************************************************************************)
(* The model follows one client.  held is the token string it keeps: none  *)
(* ({}) or the one of some earlier login response.  Tokens are not tracked *)
(* by the server, so what the server does with one token does not depend   *)
(* on any other.  The client can present the token it holds, the strings   *)
(* it can derive from it without the secret key, and strings that are not  *)
(* tokens.                                                                 *)
(***************************************************************************)
Resign(token, payload) == [token EXCEPT !.payload = payload]
Forge(payload) == jwt_encode(payload, other_key)

Tampered(token) ==
    {Forge(token.payload)}
        \cup {Resign(token, [token.payload EXCEPT !.exp = @ + DefaultDelta])}
        \cup (IF "sub" \in DOMAIN token.payload
              THEN {Resign(token, [token.payload EXCEPT !.sub = e]) :
                        e \in Emails \ {token.payload.sub}}
              ELSE {})

Truncated(token) == [token EXCEPT !.segs = 2]

Malformed == [segs |-> 1, payload |-> <<>>, sig |-> HMAC(other_key, <<>>)]

Presentable ==
    held \cup UNION {Tampered(t) : t \in held}
           \cup {Truncated(t) : t \in held} \cup {Malformed}

(***************************************************************************)
(* HTTP responses.                                                         *)
(***************************************************************************)
HTTPException(status_code, detail, headers) ==
    [status |-> status_code, headers |-> headers, body |-> [detail |-> detail]]

JSONResponse(status_code, body) ==
    [status |-> status_code, headers |-> {}, body |-> body]

\* an exception no handler catches: Starlette's ServerErrorMiddleware
InternalServerError ==
    [status |-> 500, headers |-> {}, body |-> [text |-> "Internal Server Error"]]

Bearer == {<<"WWW-Authenticate", "Bearer">>}

\* the typed outcomes of the specification, as the handlers raise them
RegistrationConflict == HTTPException(400, "Email already registered", {})
InvalidCredentials == HTTPException(401, "Incorrect email or password", Bearer)
AccountDisabled == HTTPException(400, "Account is disabled", {})
Unauthenticated == HTTPException(401, "Could not validate credentials", Bearer)

\* variant: no response_model, the ORM row is serialised as it is
UserResponse_row(user) == user

\* response_model = UserResponse: the fields the schema declares
UserResponse(user) ==
    [id |-> user.id, email |-> user.email,
     is_active |-> user.is_active, created_at |-> user.created_at]

\* response_model = Token
Token(access_token) == [access_token |-> access_token, token_type |-> "bearer"]

(***************************************************************************)
(* The users table.                                                        *)
(***************************************************************************)
\* variant: the query also filters on is_active, so a disabled row is not seen
query_first_active(email) == {u \in users : u.email = email /\ u.is_active}

\* db.query(User).filter(User.email == email).first(): {} is None
query_first(email) == {u \in users : u.email = email}

\* variant: the is_active column declared with default False
NewRow_inactive(email, hashed) ==
    [id |-> Cardinality(users) + 1, email |-> email, hashed_password |-> hashed,
     is_active |-> FALSE, created_at |-> timegm(now)]

\* the row an INSERT produces: autoincrement id, is_active default,
\* created_at from the server default now() (whole seconds)
NewRow(email, hashed) ==
    [id |-> Cardinality(users) + 1, email |-> email, hashed_password |-> hashed,
     is_active |-> TRUE, created_at |-> timegm(now)]

\* variant: the email column declared without unique = True
UniqueViolation_absent(email) == FALSE

\* the salt bcrypt draws for a new digest: random, so no stored digest has it
gensalt == Cardinality(users) + 1

\* the UNIQUE constraint on users.email: does the INSERT violate it?
UniqueViolation(email) == \E u \in users : u.email = email

NoResp == [op |-> "none"]

Init ==
    /\ users = {}
    /\ now = StartTick
    /\ reg = [p \in Proc |-> [pc |-> "idle"]]
    /\ held = {}
    /\ last = NoResp
    /\ db = [p \in Proc |-> [pc |-> "none"]]

(***************************************************************************)
(* register, first half: the existence check (auth.py lines 73-78).        *)
(***************************************************************************)
RegisterCheck(p, email, password) ==
    /\ last = NoResp
    /\ reg[p].pc = "idle"
    /\ LET existing_user == query_first(email)
       IN  IF existing_user # {}
           THEN reg' = [reg EXCEPT ![p] =
                          [pc |-> "done", email |-> email,
                           passed |-> FALSE, resp |-> RegistrationConflict]]
           ELSE reg' = [reg EXCEPT ![p] =
                          [pc |-> "checked", email |-> email, password |-> password]]
    /\ last' = NoResp
    /\ UNCHANGED <<db, users, now, held>>

(***************************************************************************)
(* register, second half: hash, add, commit, refresh (lines 81-97).  The   *)
(* commit raises IntegrityError when the UNIQUE constraint rejects the     *)
(* insert; nothing catches it, so the request ends with a 500.             *)
(***************************************************************************)
RegisterCommit(p) ==
    /\ last = NoResp
    /\ reg[p].pc = "checked"
    /\ LET hashed == hash_password(reg[p].password, gensalt)
           new_user == NewRow(reg[p].email, hashed)
       IN  IF UniqueViolation(reg[p].email)
           THEN /\ users' = users
                /\ reg' = [reg EXCEPT ![p] =
                             [pc |-> "done", email |-> reg[p].email,
                              passed |-> TRUE, resp |-> InternalServerError]]
           ELSE /\ users' = users \cup {new_user}
                /\ reg' = [reg EXCEPT ![p] =
                             [pc |-> "done", email |-> reg[p].email,
                              password |-> reg[p].password, passed |-> TRUE,
                              resp |-> JSONResponse(201, UserResponse(new_user))]]
    /\ last' = NoResp
    /\ UNCHANGED <<db, now, held>>

(***************************************************************************)
(* login (auth.py lines 104-134).                                          *)
(***************************************************************************)
\* variant: an unknown email answered with its own error
LoginResponse_leaky(email, password) ==
    LET found == query_first(email)
    IN  IF found = {} THEN HTTPException(404, "User not found", {})
        ELSE LET user == CHOOSE u \in found : TRUE
             IN  IF ~ verify_password(password, user.hashed_password)
                 THEN InvalidCredentials
                 ELSE IF ~ user.is_active THEN AccountDisabled
                 ELSE JSONResponse(200,
                        Token(create_access_token([sub |-> user.email], NoDelta, now)))

\* variant: the active check placed before the password check
LoginResponse_activeFirst(email, password) ==
    LET found == query_first(email)
    IN  IF found = {} THEN InvalidCredentials
        ELSE LET user == CHOOSE u \in found : TRUE
             IN  IF ~ user.is_active THEN AccountDisabled
                 ELSE IF ~ verify_password(password, user.hashed_password)
                 THEN InvalidCredentials
                 ELSE JSONResponse(200,
                        Token(create_access_token([sub |-> user.email], NoDelta, now)))

LoginResponse(email, password) ==
    LET found == query_first(email)
    IN  IF found = {} THEN InvalidCredentials
        ELSE LET user == CHOOSE u \in found : TRUE
             IN  IF ~ verify_password(password, user.hashed_password)
                 THEN InvalidCredentials
                 ELSE IF ~ user.is_active THEN AccountDisabled
                 ELSE JSONResponse(200,
                        Token(create_access_token([sub |-> user.email], NoDelta, now)))

\* the client either keeps the token of the response or the one it held
Login(email, password) ==
    LET resp == LoginResponse(email, password)
    IN  /\ last = NoResp
        /\ \/ held' = held
           \/ resp.status = 200 /\ held' = {resp.body.access_token}
        /\ last' = [op |-> "login", email |-> email, password |-> password,
                    resp |-> resp]
        /\ UNCHANGED <<db, users, now, reg>>

(***************************************************************************)
(* get_current_user and get_me (auth.py lines 32-53, 140-150).             *)
(***************************************************************************)
\* variant: a missing row is reported as 404 instead of the 401 of a bad token
get_current_user_notfound(token) ==
    LET email == decode_access_token(token, now)
    IN  IF email = None THEN Unauthenticated
        ELSE LET found == query_first(email)
             IN  IF found = {} THEN HTTPException(404, "User not found", {})
                 ELSE JSONResponse(200, UserResponse(CHOOSE u \in found : TRUE))

\* variant: a row with is_active false is turned down like a missing one
get_current_user_active(token) ==
    LET email == decode_access_token(token, now)
    IN  IF email = None THEN Unauthenticated
        ELSE LET found == {u \in query_first(email) : u.is_active}
             IN  IF found = {} THEN Unauthenticated
                 ELSE JSONResponse(200, UserResponse(CHOOSE u \in found : TRUE))

get_current_user(token) ==
    LET email == decode_access_token(token, now)
    IN  IF email = None THEN Unauthenticated
        ELSE LET found == query_first(email)
             IN  IF found = {} THEN Unauthenticated
                 ELSE JSONResponse(200, UserResponse(CHOOSE u \in found : TRUE))

\* the emails get_current_user asks the users table for: none when it
\* raises at line 46, before the query of line 49
get_current_user_queries(token) ==
    LET email == decode_access_token(token, now)
    IN  IF email = None THEN << >> ELSE <<email>>

Identify(token) ==
    /\ last = NoResp
    /\ last' = [op |-> "me", token |-> token, resp |-> get_current_user(token),
                queries |-> get_current_user_queries(token)]
    /\ UNCHANGED <<db, users, now, reg, held>>

(***************************************************************************)
(* The administrative path outside the service that clears is_active.      *)
(***************************************************************************)
Deactivate(email) ==
    /\ last = NoResp
    /\ \E u \in users :
         /\ u.email = email
         /\ u.is_active
         /\ users' = (users \ {u}) \cup {[u EXCEPT !.is_active = FALSE]}
    /\ last' = NoResp
    /\ UNCHANGED <<db, now, reg, held>>

(***************************************************************************)
(* Time passes.                                                            *)
(***************************************************************************)
Advance(instants) ==
    /\ last = NoResp
    /\ \E t \in instants : t > now /\ now' = t
    /\ last' = NoResp
    /\ UNCHANGED <<db, users, reg, held>>

Tick == Advance(Instants)

(***************************************************************************)
(* Direct calls of the token codec, as a test of security.py makes them:   *)
(* create_access_token with any data and any expires_delta, and            *)
(* decode_access_token of any token string.                                *)
(***************************************************************************)
Datas == {[sub |-> e] : e \in Emails} \cup {<< >>}
Deltas == {NoDelta, Delta(0), Delta(seconds(1)), Delta(seconds(-1))}

\* the instants sampled around the expiry of a one-second token
CodecInstants ==
    (StartTick .. StartTick + seconds(1) + TicksPerSec)
        \cup (StartTick + DefaultDelta .. StartTick + DefaultDelta + TicksPerSec)

CodecCreate(data, expires_delta) ==
    /\ last = NoResp
    /\ held' = {create_access_token(data, expires_delta, now)}
    /\ last' = [op |-> "create", data |-> data,
                expires_delta |-> expires_delta,
                token |-> create_access_token(data, expires_delta, now)]
    /\ UNCHANGED <<db, users, now, reg>>

CodecDecode(token) ==
    /\ last = NoResp
    /\ last' = [op |-> "decode", token |-> token,
                result |-> decode_access_token(token, now)]
    /\ UNCHANGED <<db, users, now, reg, held>>

CodecTick == Advance(CodecInstants)

(***************************************************************************)
(* The handler returns: the response of login or /me leaves the server.    *)
(* A response is handed over before the next step of any request is        *)
(* taken, so that a state holding a response is the state it was computed  *)
(* in.                                                                     *)
(***************************************************************************)
Return ==
    /\ last # NoResp
    /\ last' = NoResp
    /\ UNCHANGED <<db, users, now, reg, held>>

Next ==
    \/ \E p \in Proc, e \in Emails, pw \in Passwords : RegisterCheck(p, e, pw)
    \/ \E p \in Proc : RegisterCommit(p)
    \/ \E e \in Emails, pw \in Passwords : Login(e, pw)
    \/ \E token \in Presentable : Identify(token)
    \/ \E e \in Emails : Deactivate(e)
    \/ Tick
    \/ Return

Spec == Init /\ [][Next]_vars

NextCodec ==
    \/ \E data \in Datas, expires_delta \in Deltas : CodecCreate(data, expires_delta)
    \/ \E token \in Presentable : CodecDecode(token)
    \/ \E token \in Presentable : Identify(token)
    \/ CodecTick
    \/ Return

SpecCodec == Init /\ [][NextCodec]_vars

(***************************************************************************)
(* The session dependency get_db (app/database.py lines 53-58), around one *)
(* request per slot.  The three operations depend on it: register and      *)
(* login directly, /me through get_current_user.  What get_db sees of the  *)
(* code it wraps is how that code is left: by its return, by the           *)
(* HTTPException it raises, or by the IntegrityError of a rejected insert  *)
(* that nothing catches.                                                   *)
(***************************************************************************)
Handlers == {"register", "login", "get_current_user"}

ExitsOf(handler) ==
    {"return", "HTTPException"}
        \cup (IF handler = "register" THEN {"IntegrityError"} ELSE {})

\* variant: db.close() written after the yield without try/finally, so an
\* exception thrown into the generator skips it
Finalizes_onReturn(exit) == exit = "return"

\* try/finally: the finally clause runs however the body is left
Finalizes(exit) == exit \in {"return", "HTTPException", "IntegrityError"}

\* db = SessionLocal(); yield db
get_db_open(p, handler) ==
    /\ db[p].pc = "none"
    /\ db' = [db EXCEPT ![p] = [pc |-> "yielded", handler |-> handler,
                                closes |-> 0]]
    /\ UNCHANGED <<users, now, reg, held, last>>

\* the code that was given the session is left
HandlerExit(p, exit) ==
    /\ db[p].pc = "yielded"
    /\ exit \in ExitsOf(db[p].handler)
    /\ db' = [db EXCEPT ![p] = [pc |-> "exited", handler |-> db[p].handler,
                                exit |-> exit, closes |-> db[p].closes]]
    /\ UNCHANGED <<users, now, reg, held, last>>

\* finally: db.close(); the generator is exhausted
get_db_close(p) ==
    /\ db[p].pc = "exited"
    /\ Finalizes(db[p].exit)
    /\ db' = [db EXCEPT ![p] = [pc |-> "closed", handler |-> db[p].handler,
                                exit |-> db[p].exit,
                                closes |-> db[p].closes + 1]]
    /\ UNCHANGED <<users, now, reg, held, last>>

NextDb ==
    \/ \E p \in Proc, handler \in Handlers : get_db_open(p, handler)
    \/ \E p \in Proc, exit \in {"return", "HTTPException", "IntegrityError"} :
          HandlerExit(p, exit)
    \/ \E p \in Proc : get_db_close(p)

\* The handlers are straight-line code that neither loops nor waits, so a
\* handler that was given a session is left; the framework resumes the
\* generator of a dependency once the code it wraps has been left.
SpecDb ==
    /\ Init
    /\ [][NextDb]_vars
    /\ \A p \in Proc :
          /\ WF_vars(\E exit \in {"return", "HTTPException", "IntegrityError"} :
                        HandlerExit(p, exit))
          /\ WF_vars(get_db_close(p))

(***************************************************************************)
(* Helpers of the properties.                                              *)
(***************************************************************************)
RowsOf(email) == {u \in users : u.email = email}

\* the register invocations for email that attempted their insert
Committed(email) ==
    {p \in Proc : reg[p].pc = "done" /\ reg[p].email = email /\ reg[p].passed}

Succeeded(ps) == {p \in ps : reg[p].resp.status = 201}

\* this step is a step of some register invocation
RegisterStep == reg' # reg

(***************************************************************************)
(* C1: in every reachable state no two rows of the users table carry the   *)
(* same email, and a step of register never removes or alters a row: the   *)
(* table only grows, by rows whose email was not in it.                    *)
(***************************************************************************)
EmailUnique == \A u, v \in users : u.email = v.email => u = v

C1_EmailUnique ==
    [][ /\ EmailUnique'
        /\ RegisterStep =>
              /\ users \subseteq users'
              /\ \A v \in users' \ users : RowsOf(v.email) = {} ]_vars

\* an insert with a colliding email was turned down by the table, and the
\* row stored for that email is the one an earlier invocation got back
C1_Witness ==
    \E p, q \in Proc :
        /\ reg[p].pc = "done" /\ reg[p].passed /\ reg[p].resp.status # 201
        /\ reg[q].pc = "done" /\ reg[q].resp.status = 201
        /\ RowsOf(reg[p].email) = {u \in users : u.id = reg[q].resp.body.id}

(***************************************************************************)
(* C2: of the register invocations for one email that all passed the       *)
(* existence check and have attempted their insert, exactly one has        *)
(* succeeded and every other has failed, and the table holds exactly one   *)
(* row for that email.                                                     *)
(***************************************************************************)
C2_ExactlyOneWins ==
    \A e \in Emails :
        Committed(e) # {} =>
            /\ Cardinality(Succeeded(Committed(e))) = 1
            /\ \A p \in Committed(e) \ Succeeded(Committed(e)) :
                   reg[p].resp.status >= 400
            /\ Cardinality(RowsOf(e)) = 1

\* two invocations for the same email both passed the check and both ended
C2_Witness == \E e \in Emails : Cardinality(Committed(e)) >= 2

(***************************************************************************)
(* C3: a register invocation that starts while a row with its email exists *)
(* ends with RegistrationConflict and leaves the users table unchanged.    *)
(***************************************************************************)
C3_ExistingEmailConflict ==
    [][ \A p \in Proc :
          (/\ reg[p].pc = "idle"
           /\ reg'[p].pc # "idle"
           /\ RowsOf(reg'[p].email) # {})
          => /\ reg'[p].pc = "done"
             /\ reg'[p].resp = RegistrationConflict
             /\ users' = users ]_vars

\* an invocation found the email taken although the stored row is disabled
C3_Witness ==
    \E p \in Proc :
        /\ reg[p].pc = "done"
        /\ ~ reg[p].passed
        /\ reg[p].resp = RegistrationConflict
        /\ \E u \in RowsOf(reg[p].email) : ~ u.is_active

(***************************************************************************)
(* C4: every register invocation that fails because its email is taken     *)
(* ends with the typed outcome RegistrationConflict, the one whose insert  *)
(* the UNIQUE constraint rejects included.                                 *)
(***************************************************************************)
C4_ConflictIsTyped ==
    \A p \in Proc :
        (reg[p].pc = "done" /\ reg[p].resp.status # 201)
            => reg[p].resp = RegistrationConflict

(***************************************************************************)
(* C5: a login whose email has no row and a login whose email has a row    *)
(* that the password does not verify against get one and the same          *)
(* response, InvalidCredentials (status, message and header), whatever the *)
(* table holds and whatever the is_active flag of the row.                 *)
(***************************************************************************)
NoMatch(email, password) ==
    \A u \in RowsOf(email) : ~ verify_password(password, u.hashed_password)

C5_SameInvalidCredentials ==
    (last.op = "login" /\ NoMatch(last.email, last.password))
        => /\ last.resp = InvalidCredentials
           /\ last.resp.status = 401
           /\ last.resp.body.detail = "Incorrect email or password"

\* a wrong password for a stored, disabled row was answered, while the other
\* email has no row at all
C5_Witness ==
    /\ last.op = "login"
    /\ last.resp = InvalidCredentials
    /\ \E u \in RowsOf(last.email) : ~ u.is_active
    /\ \E e \in Emails : RowsOf(e) = {}

(***************************************************************************)
(* C6: a login for a row with is_active false answers AccountDisabled,     *)
(* which differs from InvalidCredentials, and issues no token, when the    *)
(* password verifies; it answers InvalidCredentials when the password does *)
(* not verify, the password check coming first.                            *)
(***************************************************************************)
C6_DisabledAfterPassword ==
    [][ last'.op = "login" =>
          \A u \in RowsOf(last'.email) :
              ~ u.is_active =>
                 IF verify_password(last'.password, u.hashed_password)
                 THEN /\ last'.resp = AccountDisabled
                      /\ AccountDisabled # InvalidCredentials
                      /\ "access_token" \notin DOMAIN last'.resp.body
                      /\ held' = held
                 ELSE last'.resp = InvalidCredentials ]_vars

\* a disabled row was presented with its own password
C6_Witness ==
    /\ last.op = "login"
    /\ last.resp = AccountDisabled
    /\ \E u \in RowsOf(last.email) :
          ~ u.is_active /\ verify_password(last.password, u.hashed_password)

(***************************************************************************)
(* C7: login hands out a token only when a row with the given email        *)
(* exists, the given password verifies against its hash and the row is     *)
(* active; the token then carries the row's email as subject and the       *)
(* instant now + the configured default lifetime as expiry, and its type   *)
(* tag is "bearer".  No other step hands out a token.                      *)
(***************************************************************************)
C7_TokenOnlyForValidLogin ==
    [][ /\ held' # held => (last'.op = "login" /\ last'.resp.status = 200)
        /\ (last'.op = "login" /\ last'.resp.status = 200) =>
             LET token == last'.resp.body.access_token
             IN  /\ \E u \in RowsOf(last'.email) :
                       /\ verify_password(last'.password, u.hashed_password)
                       /\ u.is_active
                       /\ get(token.payload, "sub") = u.email
                 /\ token.payload.exp =
                       timegm(now + minutes(access_token_expire_minutes))
                 /\ last'.resp.body.token_type = "bearer"
                 /\ held' \in {held, {token}} ]_vars

\* a token was handed out at an instant that is not a whole second
C7_Witness ==
    /\ last.op = "login"
    /\ last.resp.status = 200
    /\ now % TicksPerSec # 0
    /\ held = {last.resp.body.access_token}

(***************************************************************************)
(* C8: end to end.  After a register that answered 201 with a view without *)
(* password field, and while the row is not disabled, a login with the     *)
(* registered email and password is answered with a token, and /me with a  *)
(* token a login handed out for that email, before its expiry, returns the *)
(* user that register created: same id, same email.                        *)
(***************************************************************************)
C8_EndToEnd ==
    \A p \in Proc :
        (reg[p].pc = "done" /\ reg[p].resp.status = 201) =>
            LET view == reg[p].resp.body
            IN  /\ DOMAIN view = {"id", "email", "is_active", "created_at"}
                /\ view.email = reg[p].email
                /\ (\E u \in RowsOf(view.email) : u.is_active) =>
                      /\ (/\ last.op = "login"
                          /\ last.email = reg[p].email
                          /\ last.password = reg[p].password)
                         => /\ last.resp.status = 200
                            /\ "access_token" \in DOMAIN last.resp.body
                      /\ (/\ last.op = "me"
                          /\ last.token \in held
                          /\ get(last.token.payload, "sub") = reg[p].email
                          /\ now < seconds(last.token.payload.exp))
                         => /\ last.resp.status = 200
                            /\ last.resp.body.id = view.id
                            /\ last.resp.body.email = reg[p].email

\* /me answered with the registered user for a token the login handed out
C8_Witness ==
    \E p \in Proc :
        /\ reg[p].pc = "done" /\ reg[p].resp.status = 201
        /\ last.op = "me" /\ last.token \in held
        /\ last.resp.status = 200
        /\ last.resp.body.id = reg[p].resp.body.id
        /\ last.resp.body.email = reg[p].email

(***************************************************************************)
(* C9: round trip of the token codec.  decode_access_token of a token that *)
(* create_access_token made for a subject, evaluated at any instant        *)
(* strictly before the expiry the token embeds and with the same secret    *)
(* key, returns exactly that subject.                                      *)
(***************************************************************************)
C9_RoundTrip ==
    (/\ last.op = "decode"
     /\ last.token \in held
     /\ "sub" \in DOMAIN last.token.payload
     /\ now < seconds(last.token.payload.exp))
        => last.result = last.token.payload.sub

\* a token made with a lifetime of one second was decoded before its expiry
C9_Witness ==
    /\ last.op = "decode"
    /\ last.token \in held
    /\ last.result \in Emails
    /\ last.token.payload.exp <= timegm(StartTick + 1) + 1
    /\ now < seconds(last.token.payload.exp)

(***************************************************************************)
(* C10: verification rejects a token at every instant now >= expires_at,   *)
(* the instant now = expires_at included: decode_access_token returns no   *)
(* identity and /me answers Unauthenticated.                               *)
(***************************************************************************)
C10_RejectedFromExpiry ==
    /\ (/\ last.op = "decode"
        /\ last.token \in held
        /\ now >= seconds(last.token.payload.exp))
       => last.result = None
    /\ (/\ last.op = "me"
        /\ last.token \in held
        /\ now >= seconds(last.token.payload.exp))
       => last.resp = Unauthenticated

(***************************************************************************)
(* C11: create_access_token embeds the expiry now + expires_delta for      *)
(* every expires_delta the caller supplies, a delta of zero and a negative *)
(* delta included; the default lifetime of access_token_expire_minutes is  *)
(* used only when the caller supplies no delta.                            *)
(***************************************************************************)
C11_SuppliedDeltaEmbedded ==
    last.op = "create" =>
        IF last.expires_delta = NoDelta
        THEN last.token.payload.exp =
                 timegm(now + minutes(access_token_expire_minutes))
        ELSE last.token.payload.exp =
                 timegm(now + TheDelta(last.expires_delta))

(***************************************************************************)
(* C12: /me accepts a token only if it is exactly a token that             *)
(* create_access_token made under the secret key.  Every string obtained   *)
(* from the handed-out token by replacing its signature or by changing its *)
(* payload (subject or expiry) is answered Unauthenticated, and a /me that *)
(* answers with a user does so for the subject of the handed-out token.    *)
(***************************************************************************)
C12_OnlyIssuedTokensAccepted ==
    last.op = "me" =>
        /\ last.token \notin held => last.resp = Unauthenticated
        /\ last.resp.status = 200 =>
              /\ last.token \in held
              /\ last.token = jwt_encode(last.token.payload, secret_key)
              /\ last.resp.body.email = last.token.payload.sub

\* the subject of the handed-out token was replaced by the email of another
\* stored user, the signature kept, and /me turned the token down
C12_Witness ==
    /\ last.op = "me"
    /\ last.resp = Unauthenticated
    /\ \E t \in held :
          /\ last.token # t
          /\ last.token.sig = t.sig
          /\ last.token.payload.exp = t.payload.exp
          /\ last.token.payload.sub # t.payload.sub
          /\ RowsOf(last.token.payload.sub) # {}

(***************************************************************************)
(* C13: /me gives one and the same answer, Unauthenticated (status 401,    *)
(* the same message, the same WWW-Authenticate header), for a tampered     *)
(* token, a malformed token, a token past its expiry and a valid token     *)
(* whose subject has no row; decode_access_token returns the same None for *)
(* every token it does not verify.                                         *)
(***************************************************************************)
Expired(token) ==
    "exp" \in DOMAIN token.payload /\ token.payload.exp < timegm(now)

C13_OneUnauthenticated ==
    /\ (/\ last.op = "me"
        /\ \/ last.token \notin held
           \/ Expired(last.token)
           \/ RowsOf(get(last.token.payload, "sub")) = {})
       => /\ last.resp = Unauthenticated
          /\ last.resp.status = 401
          /\ last.resp.body = [detail |-> "Could not validate credentials"]
          /\ last.resp.headers = Bearer
    /\ (/\ last.op = "decode"
        /\ last.token \notin held \/ Expired(last.token))
       => last.result = None

\* a token that verifies and has not expired, for a subject without a row
C13_Witness ==
    /\ last.op = "me"
    /\ last.token \in held
    /\ ~ Expired(last.token)
    /\ get(last.token.payload, "sub") \in Emails
    /\ RowsOf(last.token.payload.sub) = {}
    /\ last.resp = Unauthenticated

(***************************************************************************)
(* C14: the user view that register (201) and /me (200) send out has       *)
(* exactly the fields id, email, is_active and created_at, so neither the  *)
(* password hash nor the plaintext password leaves the service, at both    *)
(* egress points and for every stored row.                                 *)
(***************************************************************************)
PublicFields == {"id", "email", "is_active", "created_at"}

Public(view) == DOMAIN view = PublicFields

C14_NoPasswordInView ==
    /\ PublicFields \cap {"hashed_password", "password"} = {}
    /\ \A p \in Proc :
          (reg[p].pc = "done" /\ reg[p].resp.status = 201)
              => Public(reg[p].resp.body)
    /\ (last.op = "me" /\ last.resp.status = 200) => Public(last.resp.body)
    /\ \A u \in users : Public(UserResponse(u))

\* register has sent the view of one user and /me the view of another one
C14_Witness ==
    \E p \in Proc :
        /\ reg[p].pc = "done" /\ reg[p].resp.status = 201
        /\ last.op = "me" /\ last.resp.status = 200
        /\ last.resp.body.id # reg[p].resp.body.id
        /\ \E u \in users : u.id = last.resp.body.id
                              /\ "hashed_password" \in DOMAIN u

(***************************************************************************)
(* C15: tokens are stateless and never revoked.  A token that a login      *)
(* handed out is accepted by /me at every instant strictly before its      *)
(* expiry, as long as the row of its subject exists: after whatever steps  *)
(* of register, login (a later login of the same user included), /me, the  *)
(* clock and the administrative path, a /me taken with it answers with the *)
(* user of its subject.                                                    *)
(***************************************************************************)
C15_NeverRevoked ==
    (/\ last.op = "me"
     /\ last.token \in held
     /\ now < seconds(last.token.payload.exp)
     /\ RowsOf(last.token.payload.sub) # {})
        => /\ last.resp.status = 200
           /\ last.resp.body.email = last.token.payload.sub
           /\ last.resp.body.id \in {u.id : u \in RowsOf(last.token.payload.sub)}

\* /me accepted the token in a later second than the one it was handed out
\* in, for a user that has been disabled in between
C15_Witness ==
    /\ last.op = "me"
    /\ last.token \in held
    /\ last.resp.status = 200
    /\ last.token.payload.exp < timegm(now + DefaultDelta)
    /\ now < seconds(last.token.payload.exp)
    /\ ~ last.resp.body.is_active

(***************************************************************************)
(* C16: is_active is respected wherever a row is read.  Once the flag of a *)
(* row is false, no login and no /me for that user succeeds, so /me never  *)
(* answers with a disabled user, not even for a token handed out while the *)
(* user was enabled.                                                       *)
(***************************************************************************)
C16_InactiveNeverSucceeds ==
    /\ (last.op = "login" /\ last.resp.status = 200)
       => \A u \in RowsOf(last.email) : u.is_active
    /\ (last.op = "me" /\ last.resp.status = 200)
       => /\ last.resp.body.is_active
          /\ \A u \in RowsOf(last.resp.body.email) : u.is_active

(***************************************************************************)
(* C17: frame of the three operations.  A step of login or of /me leaves   *)
(* the users table as it is, whatever it answers; a register that answers  *)
(* 201 adds exactly one row, with is_active true, and a register that      *)
(* fails adds none; and no step changes the id, email, password hash or    *)
(* created_at of a row that exists.                                        *)
(***************************************************************************)
C17_Frame ==
    [][ /\ last' # NoResp => users' = users
        /\ \A p \in Proc :
              reg'[p] # reg[p] =>
                 IF reg'[p].pc = "done" /\ reg'[p].resp.status = 201
                 THEN \E row \in users' \ users :
                         /\ users' = users \cup {row}
                         /\ row.is_active
                         /\ row.email = reg'[p].email
                         /\ row.id = reg'[p].resp.body.id
                         /\ \A u \in users : u.id # row.id
                 ELSE users' = users
        /\ \A u \in users :
              \E v \in users' :
                 /\ v.id = u.id
                 /\ v.email = u.email
                 /\ v.hashed_password = u.hashed_password
                 /\ v.created_at = u.created_at ]_vars

\* a second row was added next to an existing one, in a later second, and a
\* login that failed has been answered since
C17_Witness ==
    /\ Cardinality(users) = 2
    /\ \E u, v \in users : u.id = 1 /\ v.id = 2 /\ u.created_at < v.created_at
    /\ \E p \in Proc : /\ reg[p].pc = "done" /\ reg[p].resp.status = 201
                        /\ reg[p].resp.body.id = 2
    /\ last.op = "login"
    /\ last.resp.status = 401

(***************************************************************************)
(* C18: every session that get_db opens for a request is eventually        *)
(* closed, and closed exactly once, however the code that was given the    *)
(* session is left: by its return, by an HTTPException of register, login  *)
(* or /me, or by an exception nothing catches, such as the rejected        *)
(* insert.  No session stays open.                                         *)
(***************************************************************************)
C18_SessionClosed ==
    \A p \in Proc :
        /\ [](db[p].pc = "yielded"
               => <>(db[p].pc = "closed" /\ db[p].closes = 1))
        /\ [](db[p].pc = "closed" => [](db[p].pc = "closed" /\ db[p].closes = 1))

\* one session was closed after the rejected insert of a register, another
\* after an HTTPException
C18_Witness ==
    \E p, q \in Proc :
        /\ db[p].pc = "closed"
        /\ db[p].handler = "register" /\ db[p].exit = "IntegrityError"
        /\ db[p].closes = 1
        /\ db[q].pc = "closed"
        /\ db[q].exit = "HTTPException"

(***************************************************************************)
(* C19: a token that is correctly signed and has not expired but whose     *)
(* payload has no "sub" entry, as create_access_token makes it from data   *)
(* without one, is invalid: decode_access_token returns None, and /me      *)
(* answers Unauthenticated without asking the users table.                 *)
(***************************************************************************)
NoSubject(token) ==
    /\ token \in held
    /\ token = jwt_encode(token.payload, secret_key)
    /\ "sub" \notin DOMAIN token.payload
    /\ ~ Expired(token)

C19_NoSubjectIsInvalid ==
    /\ (last.op = "decode" /\ NoSubject(last.token)) => last.result = None
    /\ (last.op = "me" /\ NoSubject(last.token))
          => /\ last.resp = Unauthenticated
             /\ last.queries = << >>

\* /me was asked with a signed, unexpired token made from an empty dict
C19_Witness ==
    /\ last.op = "me"
    /\ NoSubject(last.token)
    /\ DOMAIN last.token.payload = {"exp"}
    /\ last.token.payload.exp > timegm(now)
    /\ last.resp.status = 401

====
